---- MODULE Spec2Model ----
(***************************************************************************)
(* State-machine model of the task orchestration engine of                 *)
(* src/mi4/task_management.py (Task, TaskQueue and TaskCoordinator) and of  *)
(* the components around it: CircuitBreaker and ProcessPool of              *)
(* src/mi4/orchestrator.py, RateLimiter of src/mi4/token_manager.py.        *)
(*                                                                         *)
(* Task ids are the indices of the sequence `tasks` (uuid4 ids are fresh,  *)
(* so is the next index).  Time is a clock `now` counted in hours;         *)
(* a timestamp that is None in the code is NoneTime here.  The components  *)
(* read time.time(), the variable `clock`, counted in seconds.             *)
(***************************************************************************)
EXTENDS Integers, Sequences, FiniteSets, TLC

VARIABLES
    tasks,            \* TaskQueue.tasks: task id -> Task
    pending_tasks,    \* TaskQueue.pending_tasks: priority -> deque of task ids
    running_tasks,    \* TaskQueue.running_tasks: set of task ids
    completed_tasks,  \* TaskQueue.completed_tasks: task id -> TaskResult
    now,              \* datetime.now(), in hours
    max_concurrent,   \* TaskCoordinator.max_concurrent
    running,          \* TaskCoordinator._running
    active_tasks,     \* TaskCoordinator.active_tasks: the execution handles
    attempts,         \* history: times get_next_task returned each task
    failed_attempts,  \* history: failed execution attempts of each task
    clock,            \* time.time(), in seconds
    failure_threshold, \* CircuitBreaker.failure_threshold
    timeout,          \* CircuitBreaker.timeout
    failures,         \* CircuitBreaker.failures
    last_failure_time, \* CircuitBreaker.last_failure_time
    state,            \* CircuitBreaker.state
    calls,            \* history: the calls of CircuitBreaker.call, in order
    streak,           \* history: failed calls since the last successful one
    rpm_limit,        \* RateLimiter.rpm_limit
    rph_limit,        \* RateLimiter.rph_limit
    minute_requests,  \* RateLimiter.minute_requests: deque of timestamps
    hour_requests,    \* RateLimiter.hour_requests: deque of timestamps
    acquired,         \* history: time and result of every acquire()
    max_workers,      \* ProcessPool.max_workers
    available_workers, \* ProcessPool.available_workers: deque of processes
    busy_workers,     \* ProcessPool.busy_workers: set of processes
    total_processes_created, \* ProcessPool.stats.total_processes_created
    exited,           \* the processes whose returncode is not None
    got,              \* history: number, branch and result of the last get_worker()
    cleaning,         \* ProcessPool.cleanup: where a call that holds the lock stands
    scheduled_tasks,  \* TaskScheduler.scheduled_tasks: task_id -> entry
    scheduler_running, \* TaskScheduler._running
    last_pass         \* history: time and outcomes of the last pass of the loop

queue_vars == <<tasks, pending_tasks, running_tasks, completed_tasks>>

coordinator_vars == <<max_concurrent, running, active_tasks>>

\* the task engine of task_management.py
engine_vars ==
    <<queue_vars, now, coordinator_vars, attempts, failed_attempts>>

breaker_vars ==
    <<failure_threshold, timeout, failures, last_failure_time, state, calls,
      streak>>

limiter_vars ==
    <<rpm_limit, rph_limit, minute_requests, hour_requests, acquired>>

pool_vars ==
    <<max_workers, available_workers, busy_workers, total_processes_created,
      exited, got, cleaning>>

scheduler_vars == <<scheduled_tasks, scheduler_running, last_pass>>

\* the components around the task engine
component_vars ==
    <<clock, breaker_vars, limiter_vars, pool_vars, scheduler_vars>>

vars == <<engine_vars, component_vars>>

-----------------------------------------------------------------------------
(* Bounds of the model *)

\* tasks added through add_task / submitted through submit_task
MaxAdded == 2

MaxSubmitted == 3

\* get_next_task, called directly, returns a task at most this often
MaxAttempts == 3

\* the coordinator dispatches at most this many executions
MaxDispatches == 3

\* fail_task requeues a task at most this often
MaxRequeues == 1

\* the clock stops here
MaxTime == 2

\* CircuitBreaker.call is called at most this often
MaxCalls == 5

\* RateLimiter.acquire is called at most this often
MaxAcquires == 5

\* the subprocesses that exist
MaxProcesses == 3

\* ProcessPool.get_worker is called at most this often
MaxGets == 4

\* ProcessPool.available_workers holds at most this many entries
MaxIdle == 3

-----------------------------------------------------------------------------
(* Enumerations and constants of the program *)

PENDING == "pending"

RUNNING == "running"

COMPLETED == "completed"

FAILED == "failed"

CANCELLED == "cancelled"

TIMEOUT == "timeout"

TaskStatus == {PENDING, RUNNING, COMPLETED, FAILED, CANCELLED, TIMEOUT}

LOW == 1

NORMAL == 2

HIGH == 3

CRITICAL == 4

TaskPriority == {LOW, NORMAL, HIGH, CRITICAL}

NoneTime == -1

DefaultMaxRetries == 3

\* the larger of MaxAdded and MaxSubmitted
MaxTasks == IF MaxAdded > MaxSubmitted THEN MaxAdded ELSE MaxSubmitted

TaskIds == 1..MaxTasks

\* TaskDependency(task_id, dependency_type="completion", required=True)
TaskDependency(task_id, required) == [task_id |-> task_id, required |-> required]

\* Task(...): a new task, status PENDING, retry_count 0, created_at = now
Task(priority, dependencies, timeout_seconds, max_retries, agent_id) ==
    [priority        |-> priority,
     status          |-> PENDING,
     dependencies    |-> dependencies,
     created_at      |-> now,
     started_at      |-> NoneTime,
     completed_at    |-> NoneTime,
     timeout_seconds |-> timeout_seconds,
     retry_count     |-> 0,
     max_retries     |-> max_retries,
     agent_id        |-> agent_id]

\* TaskResult(task_id, success, error)
TaskResult(success) == [success |-> success]

-----------------------------------------------------------------------------
(* Task and TaskQueue *)

Known == DOMAIN tasks

CompletedIds == DOMAIN completed_tasks

\* a slip: the dependency is looked up among all tasks, not the completed ones
can_start_known(task, completed_task_ids) ==
    \A i \in 1..Len(task.dependencies) :
        task.dependencies[i].task_id \in Known

\* Task.can_start
can_start(task, completed_task_ids) ==
    \A i \in 1..Len(task.dependencies) :
        task.dependencies[i].task_id \in completed_task_ids

\* a slip: the priority weighs 10, not 100
calculate_task_score_flat(task) ==
    task.priority * 10
    + (now - task.created_at) * 10
    + (task.max_retries - task.retry_count) * 5
    + (IF task.timeout_seconds # 0 THEN 20 ELSE 0)
    - Len(task.dependencies) * 3

\* TaskQueue._calculate_task_score
calculate_task_score(task) ==
    task.priority * 100
    + (now - task.created_at) * 10
    + (task.max_retries - task.retry_count) * 5
    + (IF task.timeout_seconds # 0 THEN 20 ELSE 0)
    - Len(task.dependencies) * 3

\* reversed(list(TaskPriority)): the buckets in the order they are scanned
ScanOrder ==
    pending_tasks[CRITICAL] \o pending_tasks[HIGH]
        \o pending_tasks[NORMAL] \o pending_tasks[LOW]

\* the scan of get_next_task: 0 stands for None.  _calculate_task_score reads
\* datetime.now() anew for every task it scores, so a task scanned later is a
\* little older when it is scored: with `drift` (the clock moved between the
\* two readings) it beats an equal score, without it it does not.
RECURSIVE ScanBest(_, _, _, _)
ScanBest(ids, best_task, best_score, drift) ==
    IF ids = <<>> THEN best_task
    ELSE LET task_id == Head(ids)
             task == tasks[task_id]
             score == calculate_task_score(task)
         IN IF task_id \in running_tasks
                THEN ScanBest(Tail(ids), best_task, best_score, drift)
            ELSE IF ~can_start(task, CompletedIds)
                THEN ScanBest(Tail(ids), best_task, best_score, drift)
            ELSE IF score > best_score
                    \/ (drift /\ best_task # 0 /\ score = best_score)
                THEN ScanBest(Tail(ids), task_id, score, drift)
            ELSE ScanBest(Tail(ids), best_task, best_score, drift)

BestTask(drift) == ScanBest(ScanOrder, 0, -1, drift)

\* TaskQueue.get_queue_stats, which get_status() returns as `queue_stats`
get_queue_stats ==
    [total_tasks       |-> Len(tasks),
     pending_tasks     |-> Len(ScanOrder),
     running_tasks     |-> Cardinality(running_tasks),
     completed_tasks   |-> Cardinality(CompletedIds),
     tasks_by_priority |-> [p \in TaskPriority |-> Len(pending_tasks[p])],
     tasks_by_status   |->
         [st \in TaskStatus |->
            Cardinality({t \in Known : tasks[t].status = st})]]

\* the calls of get_next_task that returned a task, so far
RECURSIVE TotalAttempts(_)
TotalAttempts(n) == IF n = 0 THEN 0 ELSE attempts[n] + TotalAttempts(n - 1)

\* the entries fail_task has appended to the priority buckets, so far
Requeues == Len(ScanOrder) - Len(tasks)

\* fail_task(t) is within the bound: it finalises t, or may still requeue
WithinRequeues(t) ==
    \/ Requeues < MaxRequeues
    \/ tasks[t].retry_count >= tasks[t].max_retries

\* the effect of get_next_task on the queue when it returns task t
MarkRunning(t) ==
    /\ running_tasks' = running_tasks \cup {t}
    /\ tasks' = [tasks EXCEPT ![t].status = RUNNING, ![t].started_at = now]
    /\ attempts' = [attempts EXCEPT ![t] = @ + 1]
    /\ UNCHANGED <<pending_tasks, completed_tasks>>

\* the effect of complete_task(task_id, result)
DoComplete(t, success) ==
    /\ tasks' = [tasks EXCEPT
                   ![t].status = IF success THEN COMPLETED ELSE FAILED,
                   ![t].completed_at = now]
    /\ running_tasks' = running_tasks \ {t}
    /\ completed_tasks' =
         [x \in CompletedIds \cup {t} |->
            IF x = t THEN TaskResult(success) ELSE completed_tasks[x]]
    /\ UNCHANGED pending_tasks

\* a slip: the requeued task is left in the running set
DoFail_running(t) ==
    IF tasks[t].retry_count < tasks[t].max_retries
    THEN /\ tasks' = [tasks EXCEPT ![t].retry_count = @ + 1,
                                   ![t].status = PENDING]
         /\ pending_tasks' =
              [pending_tasks EXCEPT ![tasks[t].priority] = Append(@, t)]
         /\ UNCHANGED <<running_tasks, completed_tasks>>
    ELSE /\ tasks' = [tasks EXCEPT ![t].status = FAILED,
                                   ![t].completed_at = now]
         /\ running_tasks' = running_tasks \ {t}
         /\ completed_tasks' =
              [x \in CompletedIds \cup {t} |->
                 IF x = t THEN TaskResult(FALSE) ELSE completed_tasks[x]]
         /\ UNCHANGED pending_tasks

\* the effect of fail_task(task_id, error)
DoFail(t) ==
    IF tasks[t].retry_count < tasks[t].max_retries
    THEN /\ tasks' = [tasks EXCEPT ![t].retry_count = @ + 1,
                                   ![t].status = PENDING]
         /\ pending_tasks' =
              [pending_tasks EXCEPT ![tasks[t].priority] = Append(@, t)]
         /\ running_tasks' = running_tasks \ {t}
         /\ UNCHANGED completed_tasks
    ELSE /\ tasks' = [tasks EXCEPT ![t].status = FAILED,
                                   ![t].completed_at = now]
         /\ running_tasks' = running_tasks \ {t}
         /\ completed_tasks' =
              [x \in CompletedIds \cup {t} |->
                 IF x = t THEN TaskResult(FALSE) ELSE completed_tasks[x]]
         /\ UNCHANGED pending_tasks

\* a slip: the task is left in the running set
DoCancel_running(t) ==
    /\ tasks' = [tasks EXCEPT ![t].status = CANCELLED,
                              ![t].completed_at = now]
    /\ UNCHANGED <<running_tasks, pending_tasks, completed_tasks>>

\* the effect of cancel_task(task_id)
DoCancel(t) ==
    /\ tasks' = [tasks EXCEPT ![t].status = CANCELLED,
                              ![t].completed_at = now]
    /\ running_tasks' = running_tasks \ {t}
    /\ UNCHANGED <<pending_tasks, completed_tasks>>

\* the effect of add_task(task) for a task with a fresh id
DoAdd(task) ==
    /\ tasks' = Append(tasks, task)
    /\ pending_tasks' =
         IF task.status = PENDING
         THEN [pending_tasks EXCEPT ![task.priority] = Append(@, Len(tasks) + 1)]
         ELSE pending_tasks
    /\ UNCHANGED <<running_tasks, completed_tasks>>

-----------------------------------------------------------------------------
(* Inputs *)

\* Task.timeout_seconds: None (0) or a number of seconds
Timeouts == {0, 30}

\* Task.max_retries of a task handed to add_task
RetryChoices == {0, 1}

\* TaskCoordinator(max_concurrent_tasks)
ConcurrencyChoices == {1, 2, 3}

\* Task.agent_id: "agent" has a registered handler, "nobody" has none
task_handlers == {"agent"}

\* submit_task(timeout_seconds, agent_id) of independent tasks
SubmitChoices == {<<0, "agent">>, <<30, "agent">>, <<0, "nobody">>}

\* dependency lists a caller may pass for the task about to get id n
DepChoices(n) ==
    {<<>>}
    \cup {<<TaskDependency(d, required)>> : d \in 1..(n - 1), required \in BOOLEAN}

-----------------------------------------------------------------------------
(* Construction of the components *)

CLOSED == "closed"

OPEN == "open"

HALF_OPEN == "half-open"

\* CircuitBreaker.__init__(failure_threshold, timeout)
InitBreaker(thresholds, timeouts) ==
    /\ failure_threshold \in thresholds
    /\ timeout \in timeouts
    /\ failures = 0
    /\ last_failure_time = 0
    /\ state = CLOSED
    /\ calls = <<>>
    /\ streak = 0

\* RateLimiter.__init__(requests_per_minute, requests_per_hour)
InitLimiter(per_minute, per_hour) ==
    /\ rpm_limit \in per_minute
    /\ rph_limit \in per_hour
    /\ minute_requests = <<>>
    /\ hour_requests = <<>>
    /\ acquired = <<>>

\* ProcessPool.__init__(max_workers)
InitPool(workers) ==
    /\ max_workers \in workers
    /\ available_workers = <<>>
    /\ busy_workers = {}
    /\ total_processes_created = 0
    /\ exited = {}
    /\ got = [n |-> 0, branch |-> "none", worker |-> 0]
    /\ cleaning = [waiting |-> FALSE, worker |-> 0, rest |-> <<>>]

\* TaskScheduler.__init__
InitScheduler ==
    /\ scheduled_tasks = [task_id \in {} |-> NoneTime]
    /\ scheduler_running = FALSE
    /\ last_pass = [at |-> NoneTime, outcome |-> [task_id \in {} |-> "none"]]

\* the components as their constructors' defaults make them, not yet used
IdleComponents ==
    /\ clock = 0
    /\ InitBreaker({5}, {60})
    /\ InitLimiter({10}, {500})
    /\ InitPool({3})
    /\ InitScheduler

-----------------------------------------------------------------------------
(* Operations of TaskQueue, called directly *)

\* TaskQueue.add_task
AddTask ==
    /\ Len(tasks) < MaxAdded
    /\ \E priority \in {LOW, HIGH}, max_retries \in RetryChoices,
          dependencies \in DepChoices(Len(tasks) + 1) :
         DoAdd(Task(priority, dependencies, 0, max_retries, "agent"))
    /\ UNCHANGED <<now, coordinator_vars, attempts, failed_attempts,
                   component_vars>>

\* TaskQueue.get_next_task, when it returns a task (it changes nothing
\* when it returns None)
GetNextTask ==
    /\ TotalAttempts(MaxTasks) < MaxAttempts
    /\ \E drift \in BOOLEAN :
         /\ BestTask(drift) # 0
         /\ MarkRunning(BestTask(drift))
    /\ UNCHANGED <<now, coordinator_vars, failed_attempts, component_vars>>

\* TaskQueue.complete_task
CompleteTask ==
    /\ \E t \in Known, success \in BOOLEAN : DoComplete(t, success)
    /\ UNCHANGED <<now, coordinator_vars, attempts, failed_attempts,
                   component_vars>>

\* TaskQueue.fail_task
FailTask ==
    /\ \E t \in Known :
         /\ WithinRequeues(t)
         /\ DoFail(t)
    /\ UNCHANGED <<now, coordinator_vars, attempts, failed_attempts,
                   component_vars>>

\* TaskQueue.cancel_task; an execution of the task that is in flight goes on,
\* and `cancelled` records that its attempt was reported through cancel_task
CancelTask ==
    /\ \E t \in Known :
         /\ DoCancel(t)
         /\ active_tasks' =
              {IF e.task = t /\ ~e.done THEN [e EXCEPT !.cancelled = TRUE] ELSE e :
                 e \in active_tasks}
    /\ UNCHANGED <<now, max_concurrent, running, attempts, failed_attempts,
                   component_vars>>

\* the passage of time between two calls
Tick ==
    /\ now < MaxTime
    /\ now' = now + 1
    /\ UNCHANGED <<queue_vars, coordinator_vars, attempts, failed_attempts,
                   component_vars>>

\* TaskQueue.__init__: an empty queue
InitQueue ==
    /\ tasks = <<>>
    /\ pending_tasks = [p \in TaskPriority |-> <<>>]
    /\ running_tasks = {}
    /\ completed_tasks = <<>>
    /\ now = 0
    /\ attempts = [t \in TaskIds |-> 0]
    /\ failed_attempts = [t \in TaskIds |-> 0]

\* TaskCoordinator.__init__
InitCoordinator ==
    /\ max_concurrent \in ConcurrencyChoices
    /\ running = FALSE
    /\ active_tasks = {}

\* a queue used without a coordinator
Init ==
    /\ InitQueue
    /\ max_concurrent = 1
    /\ running = FALSE
    /\ active_tasks = {}
    /\ IdleComponents

NextQueue ==
    \/ AddTask
    \/ GetNextTask
    \/ CompleteTask
    \/ FailTask
    \/ CancelTask

SpecQueue == Init /\ [][NextQueue]_vars

-----------------------------------------------------------------------------
(* TaskCoordinator *)

\* an execution handle: asyncio.create_task(self._execute_task(task));
\* `reports` is history: the calls of complete_task and fail_task that the
\* execution has applied to the queue
Execution(t) ==
    [task |-> t, attempt |-> attempts[t] + 1, done |-> FALSE, cancelled |-> FALSE,
     reports |-> <<>>]

InFlight == {e \in active_tasks : ~e.done}

\* the execution e has returned, after it applied `reports` to the queue
Finish(e, reports) ==
    active_tasks' =
        (active_tasks \ {e})
            \cup {[e EXCEPT !.done = TRUE, !.cancelled = FALSE,
                            !.reports = reports]}

\* TaskCoordinator.submit_task: max_retries keeps its default
SubmitTask ==
    /\ Len(tasks) < MaxSubmitted
    /\ \E c \in SubmitChoices :
         DoAdd(Task(NORMAL, <<>>, c[1], DefaultMaxRetries, c[2]))
    /\ UNCHANGED <<now, coordinator_vars, attempts, failed_attempts,
                   component_vars>>

\* TaskCoordinator.start
Start ==
    /\ ~running
    /\ running' = TRUE
    /\ UNCHANGED <<queue_vars, now, max_concurrent, active_tasks, attempts,
                   failed_attempts, component_vars>>

\* TaskCoordinator.stop: the loop and every execution in flight are cancelled;
\* CancelledError is no Exception, so a cancelled execution reports nothing
\* (stop on a stopped coordinator finds nothing in flight and changes nothing)
Stop ==
    /\ running
    /\ running' = FALSE
    /\ active_tasks' =
         {[e EXCEPT !.done = TRUE, !.cancelled = FALSE] : e \in active_tasks}
    /\ UNCHANGED <<queue_vars, now, max_concurrent, attempts, failed_attempts,
                   component_vars>>

\* one iteration of TaskCoordinator._coordinate that dispatches a task (an
\* iteration that finds the set full, or no task, only sleeps)
Coordinate ==
    /\ running
    /\ Cardinality(active_tasks) < max_concurrent
    /\ TotalAttempts(MaxTasks) < MaxDispatches
    /\ \E drift \in BOOLEAN :
         /\ BestTask(drift) # 0
         /\ MarkRunning(BestTask(drift))
         /\ active_tasks' =
              {e \in active_tasks \cup {Execution(BestTask(drift))} : ~e.done}
    /\ UNCHANGED <<now, max_concurrent, running, failed_attempts, component_vars>>

\* _execute_task: no handler is registered for the task's agent_id
NoHandler ==
    /\ \E e \in InFlight :
         /\ tasks[e.task].agent_id \notin task_handlers
         /\ WithinRequeues(e.task)
         /\ DoFail(e.task)
         /\ failed_attempts' = [failed_attempts EXCEPT ![e.task] = @ + 1]
         /\ Finish(e, <<"fail_task">>)
    /\ UNCHANGED <<now, max_concurrent, running, attempts, component_vars>>

\* _execute_task: the handler returns a TaskResult
HandlerReturns(success) ==
    /\ \E e \in InFlight :
         /\ tasks[e.task].agent_id \in task_handlers
         /\ DoComplete(e.task, success)
         /\ failed_attempts' =
              IF success THEN failed_attempts
              ELSE [failed_attempts EXCEPT ![e.task] = @ + 1]
         /\ Finish(e, <<"complete_task">>)
    /\ UNCHANGED <<now, max_concurrent, running, attempts, component_vars>>

HandlerSucceeds == HandlerReturns(TRUE)

HandlerFails == HandlerReturns(FALSE)

\* _execute_task: the handler raises an exception
HandlerRaises ==
    /\ \E e \in InFlight :
         /\ tasks[e.task].agent_id \in task_handlers
         /\ WithinRequeues(e.task)
         /\ DoFail(e.task)
         /\ failed_attempts' = [failed_attempts EXCEPT ![e.task] = @ + 1]
         /\ Finish(e, <<"fail_task">>)
    /\ UNCHANGED <<now, max_concurrent, running, attempts, component_vars>>

\* _execute_task: asyncio.wait_for raises TimeoutError
HandlerTimesOut ==
    /\ \E e \in InFlight :
         /\ tasks[e.task].agent_id \in task_handlers
         /\ tasks[e.task].timeout_seconds # 0
         /\ WithinRequeues(e.task)
         /\ DoFail(e.task)
         /\ failed_attempts' = [failed_attempts EXCEPT ![e.task] = @ + 1]
         /\ Finish(e, <<"fail_task">>)
    /\ UNCHANGED <<now, max_concurrent, running, attempts, component_vars>>

\* the effect of complete_task(task_id, result), which raises after its
\* writes (line 240 reads result.error), followed by the fail_task(task_id,
\* error) of the except clause of _execute_task
DoCompleteThenFail(t, success) ==
    IF tasks[t].retry_count < tasks[t].max_retries
    THEN /\ tasks' = [tasks EXCEPT ![t].completed_at = now,
                                   ![t].retry_count = @ + 1,
                                   ![t].status = PENDING]
         /\ pending_tasks' =
              [pending_tasks EXCEPT ![tasks[t].priority] = Append(@, t)]
         /\ running_tasks' = running_tasks \ {t}
         /\ completed_tasks' =
              [x \in CompletedIds \cup {t} |->
                 IF x = t THEN TaskResult(success) ELSE completed_tasks[x]]
    ELSE /\ tasks' = [tasks EXCEPT ![t].status = FAILED,
                                   ![t].completed_at = now]
         /\ running_tasks' = running_tasks \ {t}
         /\ completed_tasks' =
              [x \in CompletedIds \cup {t} |->
                 IF x = t THEN TaskResult(FALSE) ELSE completed_tasks[x]]
         /\ UNCHANGED pending_tasks

\* _execute_task: the handler returns something that is no TaskResult.
\* complete_task raises AttributeError, before its first write when the
\* value has no `success`, after its writes when it has a true `success` but
\* no `error`; the except clause of _execute_task then calls fail_task
HandlerReturnsMalformed ==
    /\ \E e \in InFlight :
         /\ tasks[e.task].agent_id \in task_handlers
         /\ WithinRequeues(e.task)
         /\ \/ /\ DoFail(e.task)
               /\ Finish(e, <<"fail_task">>)
            \/ /\ DoCompleteThenFail(e.task, TRUE)
               /\ Finish(e, <<"complete_task", "fail_task">>)
         /\ failed_attempts' = [failed_attempts EXCEPT ![e.task] = @ + 1]
    /\ UNCHANGED <<now, max_concurrent, running, attempts, component_vars>>

InitCoord ==
    /\ InitQueue
    /\ InitCoordinator
    /\ IdleComponents

NextCoord ==
    \/ SubmitTask
    \/ Start
    \/ Stop
    \/ Coordinate
    \/ NoHandler
    \/ HandlerSucceeds
    \/ HandlerFails
    \/ HandlerRaises
    \/ HandlerTimesOut
    \/ HandlerReturnsMalformed
    \/ CancelTask

SpecCoord == InitCoord /\ [][NextCoord]_vars

-----------------------------------------------------------------------------
(* A HIGH and a LOW task added at the same time, without dependencies *)

\* Task.max_retries of the two tasks
PriorityRetryChoices == {0, 3, 41}

InitPriority ==
    /\ now = 0
    /\ \E ra \in PriorityRetryChoices, rb \in PriorityRetryChoices,
          ta \in Timeouts, tb \in Timeouts :
         tasks = <<Task(HIGH, <<>>, ta, ra, "agent"),
                   Task(LOW, <<>>, tb, rb, "agent")>>
    /\ pending_tasks =
         [p \in TaskPriority |->
            IF p = HIGH THEN <<1>> ELSE IF p = LOW THEN <<2>> ELSE <<>>]
    /\ running_tasks = {}
    /\ completed_tasks = <<>>
    /\ attempts = [t \in TaskIds |-> 0]
    /\ failed_attempts = [t \in TaskIds |-> 0]
    /\ max_concurrent = 1
    /\ running = FALSE
    /\ active_tasks = {}
    /\ IdleComponents

NextPriority ==
    \/ GetNextTask
    \/ CompleteTask
    \/ FailTask
    \/ CancelTask

SpecPriority == InitPriority /\ [][NextPriority]_vars

-----------------------------------------------------------------------------
(* End to end: A (CRITICAL), B (NORMAL, depends on A) and C (LOW) are        *)
(* submitted, the coordinator is started, every handler succeeds             *)

InitEndToEnd ==
    /\ now = 0
    /\ tasks = <<Task(CRITICAL, <<>>, 0, DefaultMaxRetries, "agent"),
                 Task(NORMAL, <<TaskDependency(1, TRUE)>>, 0, DefaultMaxRetries,
                      "agent"),
                 Task(LOW, <<>>, 0, DefaultMaxRetries, "agent")>>
    /\ pending_tasks =
         [p \in TaskPriority |->
            IF p = CRITICAL THEN <<1>>
            ELSE IF p = NORMAL THEN <<2>>
            ELSE IF p = LOW THEN <<3>> ELSE <<>>]
    /\ running_tasks = {}
    /\ completed_tasks = <<>>
    /\ attempts = [t \in TaskIds |-> 0]
    /\ failed_attempts = [t \in TaskIds |-> 0]
    /\ max_concurrent \in ConcurrencyChoices
    /\ running = TRUE
    /\ active_tasks = {}
    /\ IdleComponents

NextEndToEnd ==
    \/ Coordinate
    \/ HandlerSucceeds
    \/ Tick

SpecEndToEnd == InitEndToEnd /\ [][NextEndToEnd]_vars

-----------------------------------------------------------------------------
(* Select and complete, for ever: the HIGH and the LOW task above, where     *)
(* every task get_next_task returns is completed before the next call        *)

\* TaskQueue.get_next_task in a run that is followed for ever: the history
\* of a task stops counting at MaxAttempts
GetNextTaskAgain ==
    /\ \E drift \in BOOLEAN :
         /\ BestTask(drift) # 0
         /\ running_tasks' = running_tasks \cup {BestTask(drift)}
         /\ tasks' = [tasks EXCEPT ![BestTask(drift)].status = RUNNING,
                                   ![BestTask(drift)].started_at = now]
         /\ attempts' =
              [attempts EXCEPT
                 ![BestTask(drift)] = IF @ < MaxAttempts THEN @ + 1 ELSE @]
    /\ UNCHANGED <<pending_tasks, completed_tasks, now, coordinator_vars,
                   failed_attempts, component_vars>>

\* TaskQueue.complete_task(t, TaskResult(success=True)) for a task that
\* get_next_task has returned
CompleteSelected ==
    /\ \E t \in running_tasks : DoComplete(t, TRUE)
    /\ UNCHANGED <<now, coordinator_vars, attempts, failed_attempts,
                   component_vars>>

NextStarvation ==
    \/ GetNextTaskAgain
    \/ CompleteSelected
    \/ Tick

\* the caller keeps calling: a get_next_task that would return a task is
\* made, and a task that was returned is completed
SpecStarvation ==
    /\ InitPriority
    /\ [][NextStarvation]_vars
    /\ WF_vars(GetNextTaskAgain)
    /\ WF_vars(CompleteSelected)

-----------------------------------------------------------------------------
(* Timeouts: the HIGH and the LOW task above are run by a coordinator whose  *)
(* handler either returns in time or exceeds the task's timeout              *)

NextTimeout ==
    \/ Start
    \/ Coordinate
    \/ HandlerSucceeds
    \/ HandlerTimesOut

SpecTimeout == InitPriority /\ [][NextTimeout]_vars

-----------------------------------------------------------------------------
(* Ageing: tasks of one priority are added to a queue while time passes,     *)
(* selected, failed and selected again                                       *)

\* TaskQueue.add_task of a NORMAL task without dependencies; the caller made
\* the Task object (which stamps created_at) now or some time before the call
AddMadeTask ==
    /\ Len(tasks) < MaxAdded
    /\ \E timeout_seconds \in Timeouts, max_retries \in RetryChoices,
          made \in 0..now :
         DoAdd([Task(NORMAL, <<>>, timeout_seconds, max_retries, "agent")
                    EXCEPT !.created_at = made])
    /\ UNCHANGED <<now, coordinator_vars, attempts, failed_attempts,
                   component_vars>>

NextAgeing ==
    \/ AddMadeTask
    \/ GetNextTask
    \/ FailTask
    \/ Tick

SpecAgeing == Init /\ [][NextAgeing]_vars

-----------------------------------------------------------------------------
(* Tasks entered through submit_task, and the operations of the queue called *)
(* on them in any order                                                      *)

NextSubmitted ==
    \/ SubmitTask
    \/ GetNextTask
    \/ CompleteTask
    \/ FailTask
    \/ CancelTask

SpecSubmitted == Init /\ [][NextSubmitted]_vars

-----------------------------------------------------------------------------
(* The handlers that WhiteCrossOrchestrator registers with the coordinator;  *)
(* none of them raises here                                                  *)

\* the agent ids of _register_default_handlers
DefaultHandlers ==
    {"codex_executor", "repository_analyzer", "openai_optimizer", "token_manager"}

\* what the handler of an agent returns when it does not raise:
\* _execute_codex_task builds a TaskResult, the other three return a dict
\* with the key 'success'
Returned(agent_id) ==
    IF agent_id = "codex_executor" THEN "TaskResult" ELSE "dict"

\* TaskCoordinator.submit_task for one of the registered agents
SubmitToDefault ==
    /\ Len(tasks) < MaxSubmitted
    /\ \E agent_id \in DefaultHandlers :
         DoAdd(Task(NORMAL, <<>>, 0, DefaultMaxRetries, agent_id))
    /\ UNCHANGED <<now, coordinator_vars, attempts, failed_attempts,
                   component_vars>>

\* _execute_task: the registered handler returns its success value.  With a
\* TaskResult complete_task goes through; with a dict its first statement,
\* which reads result.success, raises AttributeError before anything is
\* written, and the except clause of _execute_task calls fail_task
DefaultHandlerReturns ==
    /\ \E e \in InFlight :
         /\ tasks[e.task].agent_id \in DefaultHandlers
         /\ WithinRequeues(e.task)
         /\ IF Returned(tasks[e.task].agent_id) = "TaskResult"
            THEN /\ DoComplete(e.task, TRUE)
                 /\ Finish(e, <<"complete_task">>)
                 /\ UNCHANGED failed_attempts
            ELSE /\ DoFail(e.task)
                 /\ Finish(e, <<"fail_task">>)
                 /\ failed_attempts' = [failed_attempts EXCEPT ![e.task] = @ + 1]
    /\ UNCHANGED <<now, max_concurrent, running, attempts, component_vars>>

NextDefaultHandlers ==
    \/ SubmitToDefault
    \/ Start
    \/ Coordinate
    \/ DefaultHandlerReturns

SpecDefaultHandlers == InitCoord /\ [][NextDefaultHandlers]_vars

-----------------------------------------------------------------------------
(* Penalties: LOW tasks whose dependency list is long enough to outweigh     *)
(* the priority in the score                                                 *)

\* the length of a long dependency list (a list may name a task repeatedly)
ManyDependencies == 34

\* n dependencies on task d
RECURSIVE Repeated(_, _)
Repeated(d, n) ==
    IF n = 0 THEN <<>> ELSE <<TaskDependency(d, TRUE)>> \o Repeated(d, n - 1)

\* TaskQueue.add_task of a LOW task; a task added after the first one may
\* depend on the first one
AddDependentTask ==
    /\ Len(tasks) < MaxAdded
    /\ \E max_retries \in RetryChoices,
          n \in IF tasks = <<>> THEN {0} ELSE {0, 1, ManyDependencies} :
         DoAdd(Task(LOW, Repeated(1, n), 0, max_retries, "agent"))
    /\ UNCHANGED <<now, coordinator_vars, attempts, failed_attempts,
                   component_vars>>

NextPenalty ==
    \/ AddDependentTask
    \/ GetNextTask
    \/ CompleteTask
    \/ Tick

SpecPenalty == Init /\ [][NextPenalty]_vars

-----------------------------------------------------------------------------
(* CircuitBreaker *)

\* CircuitBreaker(failure_threshold, timeout)
Thresholds == {1, 2, 3}

OpenTimeouts == {1, 60}

\* the values time.time() takes, in seconds
Instants == {0, 1, 60, 61, 62, 3600, 3601, 3661}

\* time passes between two steps
AdvanceClock ==
    /\ \E t \in Instants :
         /\ t > clock
         /\ clock' = t
    /\ UNCHANGED <<engine_vars, breaker_vars, limiter_vars, pool_vars,
                   scheduler_vars>>

\* a call of CircuitBreaker.call: the state it found, the state it left
\* behind when it was let in, and how it ended so far
Call(before, entered, outcome) ==
    [before |-> before, entered |-> entered, outcome |-> outcome]

Running == {i \in DOMAIN calls : calls[i].outcome = "running"}

\* a slip: the rejection is counted as one more failure
CallRejected_counted ==
    /\ Len(calls) < MaxCalls
    /\ state = OPEN
    /\ ~(clock - last_failure_time > timeout)
    /\ calls' = Append(calls, Call(state, state, "rejected"))
    /\ failures' = failures + 1
    /\ last_failure_time' = clock
    /\ UNCHANGED <<failure_threshold, timeout, state, streak>>
    /\ UNCHANGED <<engine_vars, clock, limiter_vars, pool_vars,
                   scheduler_vars>>

\* the first locked block of call(): the circuit is open and the timeout has
\* not passed, the exception is raised before func is awaited
CallRejected ==
    /\ Len(calls) < MaxCalls
    /\ state = OPEN
    /\ ~(clock - last_failure_time > timeout)
    /\ calls' = Append(calls, Call(state, state, "rejected"))
    /\ UNCHANGED <<failure_threshold, timeout, failures, last_failure_time,
                   state, streak>>
    /\ UNCHANGED <<engine_vars, clock, limiter_vars, pool_vars,
                   scheduler_vars>>

\* the first locked block of call(): the call is let in and func is awaited;
\* an open circuit whose timeout has passed becomes half-open
CallAdmitted ==
    /\ Len(calls) < MaxCalls
    /\ state = OPEN => clock - last_failure_time > timeout
    /\ state' = IF state = OPEN THEN HALF_OPEN ELSE state
    /\ calls' = Append(calls, Call(state, state', "running"))
    /\ UNCHANGED <<failure_threshold, timeout, failures, last_failure_time,
                   streak>>
    /\ UNCHANGED <<engine_vars, clock, limiter_vars, pool_vars,
                   scheduler_vars>>

\* a slip: the half-open circuit is closed, the failures are not forgotten
FuncReturns_keeps ==
    /\ \E i \in Running :
         calls' = [calls EXCEPT ![i].outcome = "returned"]
    /\ state' = IF state = HALF_OPEN THEN CLOSED ELSE state
    /\ streak' = 0
    /\ UNCHANGED <<failure_threshold, timeout, failures, last_failure_time>>
    /\ UNCHANGED <<engine_vars, clock, limiter_vars, pool_vars,
                   scheduler_vars>>

\* func returns: the locked block after the await
FuncReturns ==
    /\ \E i \in Running :
         calls' = [calls EXCEPT ![i].outcome = "returned"]
    /\ state' = IF state = HALF_OPEN THEN CLOSED ELSE state
    /\ failures' = IF state = HALF_OPEN THEN 0 ELSE failures
    /\ streak' = 0
    /\ UNCHANGED <<failure_threshold, timeout, last_failure_time>>
    /\ UNCHANGED <<engine_vars, clock, limiter_vars, pool_vars,
                   scheduler_vars>>

\* a slip: a failure of the half-open circuit keeps the old time stamp
FuncRaises_stale ==
    /\ \E i \in Running :
         calls' = [calls EXCEPT ![i].outcome = "raised"]
    /\ failures' = failures + 1
    /\ last_failure_time' = IF state = HALF_OPEN THEN last_failure_time ELSE clock
    /\ state' = IF failures + 1 >= failure_threshold THEN OPEN ELSE state
    /\ streak' = streak + 1
    /\ UNCHANGED <<failure_threshold, timeout>>
    /\ UNCHANGED <<engine_vars, clock, limiter_vars, pool_vars,
                   scheduler_vars>>

\* func raises: the locked block of the except clause
FuncRaises ==
    /\ \E i \in Running :
         calls' = [calls EXCEPT ![i].outcome = "raised"]
    /\ failures' = failures + 1
    /\ last_failure_time' = clock
    /\ state' = IF failures + 1 >= failure_threshold THEN OPEN ELSE state
    /\ streak' = streak + 1
    /\ UNCHANGED <<failure_threshold, timeout>>
    /\ UNCHANGED <<engine_vars, clock, limiter_vars, pool_vars,
                   scheduler_vars>>

InitBreakerAlone ==
    /\ InitQueue
    /\ max_concurrent = 1
    /\ running = FALSE
    /\ active_tasks = {}
    /\ clock = 0
    /\ InitBreaker(Thresholds, OpenTimeouts)
    /\ InitLimiter({10}, {500})
    /\ InitPool({3})
    /\ InitScheduler

NextBreaker ==
    \/ CallRejected
    \/ CallAdmitted
    \/ FuncReturns
    \/ FuncRaises
    \/ AdvanceClock

SpecBreaker == InitBreakerAlone /\ [][NextBreaker]_vars

-----------------------------------------------------------------------------
(* The circuit breaker of WhiteCrossOrchestrator, wrapped around the Codex   *)
(* subprocess of every task                                                  *)

\* CircuitBreaker(failure_threshold=5, timeout=120.0)
CodexFailureThreshold == 5

CodexOpenTimeout == 120

\* what happens to the subprocess of one task
CodexEvents == {"exit_zero", "exit_nonzero", "timeout", "spawn_error"}

CodexFailures == CodexEvents \ {"exit_zero"}

\* execute_with_process_pool, the function handed to circuit_breaker.call:
\* whether it raises, and the exit code it returns.  A time-out and every
\* other exception are caught inside it and turned into the exit code -1.
execute_with_process_pool(event) ==
    IF event = "exit_zero" THEN [raises |-> FALSE, exit_code |-> 0]
    ELSE IF event = "exit_nonzero" THEN [raises |-> FALSE, exit_code |-> 1]
    ELSE [raises |-> FALSE, exit_code |-> -1]

\* the end of circuit_breaker.call(execute_with_process_pool): the locked
\* block after the await when the function returned, the one of the except
\* clause when it raised
CodexEnds ==
    /\ \E i \in Running, event \in CodexEvents :
         /\ calls' = [calls EXCEPT ![i].outcome = event]
         /\ IF execute_with_process_pool(event).raises
               THEN /\ failures' = failures + 1
                    /\ last_failure_time' = clock
                    /\ state' = IF failures + 1 >= failure_threshold
                                   THEN OPEN ELSE state
                    /\ streak' = streak + 1
               ELSE /\ state' = IF state = HALF_OPEN THEN CLOSED ELSE state
                    /\ failures' = IF state = HALF_OPEN THEN 0 ELSE failures
                    /\ streak' = 0
                    /\ UNCHANGED last_failure_time
    /\ UNCHANGED <<failure_threshold, timeout>>
    /\ UNCHANGED <<engine_vars, clock, limiter_vars, pool_vars,
                   scheduler_vars>>

\* WhiteCrossOrchestrator.__init__
InitCodex ==
    /\ InitQueue
    /\ max_concurrent = 1
    /\ running = FALSE
    /\ active_tasks = {}
    /\ clock = 0
    /\ InitBreaker({CodexFailureThreshold}, {CodexOpenTimeout})
    /\ InitLimiter({10}, {500})
    /\ InitPool({3})
    /\ InitScheduler

NextCodex ==
    \/ CallAdmitted
    \/ CodexEnds
    \/ AdvanceClock

SpecCodex == InitCodex /\ [][NextCodex]_vars

-----------------------------------------------------------------------------
(* RateLimiter *)

\* RateLimiter(requests_per_minute, requests_per_hour)
PerMinute == {1, 2}

PerHour == {2, 3}

\* the while loops of acquire(): timestamps are popped from the left of the
\* deque as long as the leftmost one is older than the window
RECURSIVE Prune(_, _)
Prune(requests, oldest) ==
    IF requests # <<>> /\ Head(requests) < oldest
    THEN Prune(Tail(requests), oldest)
    ELSE requests

\* a slip: a full window still lets one request in
Acquire_late ==
    /\ Len(acquired) < MaxAcquires
    /\ LET minute == Prune(minute_requests, clock - 60)
           hour == Prune(hour_requests, clock - 3600)
           ok == ~(Len(minute) > rpm_limit) /\ ~(Len(hour) > rph_limit)
       IN /\ minute_requests' = IF ok THEN Append(minute, clock) ELSE minute
          /\ hour_requests' = IF ok THEN Append(hour, clock) ELSE hour
          /\ acquired' = Append(acquired, [time |-> clock, ok |-> ok])
    /\ UNCHANGED <<rpm_limit, rph_limit>>
    /\ UNCHANGED <<engine_vars, clock, breaker_vars, pool_vars,
                   scheduler_vars>>

\* a slip: a denied request is recorded in the hour window
Acquire_recording ==
    /\ Len(acquired) < MaxAcquires
    /\ LET minute == Prune(minute_requests, clock - 60)
           hour == Prune(hour_requests, clock - 3600)
           ok == ~(Len(minute) >= rpm_limit) /\ ~(Len(hour) >= rph_limit)
       IN /\ minute_requests' = IF ok THEN Append(minute, clock) ELSE minute
          /\ hour_requests' = Append(hour, clock)
          /\ acquired' = Append(acquired, [time |-> clock, ok |-> ok])
    /\ UNCHANGED <<rpm_limit, rph_limit>>
    /\ UNCHANGED <<engine_vars, clock, breaker_vars, pool_vars,
                   scheduler_vars>>

\* RateLimiter.acquire, one locked block
Acquire ==
    /\ Len(acquired) < MaxAcquires
    /\ LET minute == Prune(minute_requests, clock - 60)
           hour == Prune(hour_requests, clock - 3600)
           ok == ~(Len(minute) >= rpm_limit) /\ ~(Len(hour) >= rph_limit)
       IN /\ minute_requests' = IF ok THEN Append(minute, clock) ELSE minute
          /\ hour_requests' = IF ok THEN Append(hour, clock) ELSE hour
          /\ acquired' = Append(acquired, [time |-> clock, ok |-> ok])
    /\ UNCHANGED <<rpm_limit, rph_limit>>
    /\ UNCHANGED <<engine_vars, clock, breaker_vars, pool_vars,
                   scheduler_vars>>

InitLimiterAlone ==
    /\ InitQueue
    /\ max_concurrent = 1
    /\ running = FALSE
    /\ active_tasks = {}
    /\ clock = 0
    /\ InitBreaker({5}, {60})
    /\ InitLimiter(PerMinute, PerHour)
    /\ InitPool({3})
    /\ InitScheduler

NextLimiter ==
    \/ Acquire
    \/ AdvanceClock

SpecLimiter == InitLimiterAlone /\ [][NextLimiter]_vars

-----------------------------------------------------------------------------
(* ProcessPool *)

\* ProcessPool(max_workers)
PoolSizes == {1, 2}

\* the asyncio.subprocess.Process objects a caller can hold
Processes == 1..MaxProcesses

\* the None that get_worker returns
NoWorker == 0

\* worker.returncode is None
Alive(worker) == worker \notin exited

\* ProcessPool._lock is free: cleanup is the one operation that is suspended
\* inside its locked block
LockFree == ~cleaning.waiting

\* the position in available_workers of the first worker that is still
\* alive, 0 if there is none
FirstAlive ==
    IF \E i \in DOMAIN available_workers : Alive(available_workers[i])
    THEN CHOOSE i \in DOMAIN available_workers :
             /\ Alive(available_workers[i])
             /\ \A j \in 1..(i - 1) : ~Alive(available_workers[j])
    ELSE 0

\* ProcessPool.get_worker, one locked block: dead workers are popped, the
\* first live one is handed out; without one, None is returned, and a process
\* is counted as created if the busy set is below max_workers
GetWorker ==
    /\ got.n < MaxGets
    /\ LockFree
    /\ IF FirstAlive # 0
       THEN /\ available_workers' =
                 SubSeq(available_workers, FirstAlive + 1, Len(available_workers))
            /\ busy_workers' = busy_workers \cup {available_workers[FirstAlive]}
            /\ got' = [n |-> got.n + 1, branch |-> "reuse",
                       worker |-> available_workers[FirstAlive]]
            /\ UNCHANGED total_processes_created
       ELSE /\ available_workers' = <<>>
            /\ IF Cardinality(busy_workers) < max_workers
               THEN /\ total_processes_created' = total_processes_created + 1
                    /\ got' = [n |-> got.n + 1, branch |-> "create",
                               worker |-> NoWorker]
               ELSE /\ got' = [n |-> got.n + 1, branch |-> "exhausted",
                               worker |-> NoWorker]
                    /\ UNCHANGED total_processes_created
            /\ UNCHANGED busy_workers
    /\ UNCHANGED <<max_workers, exited, cleaning>>
    /\ UNCHANGED <<engine_vars, clock, breaker_vars, limiter_vars,
                   scheduler_vars>>

\* ProcessPool.return_worker(worker), one locked block, for any process
\* the caller holds
ReturnWorker ==
    /\ Len(available_workers) < MaxIdle
    /\ LockFree
    /\ \E worker \in Processes :
         /\ busy_workers' = busy_workers \ {worker}
         /\ available_workers' =
              IF Alive(worker) THEN Append(available_workers, worker)
              ELSE available_workers
    /\ UNCHANGED <<max_workers, total_processes_created, exited, got, cleaning>>
    /\ UNCHANGED <<engine_vars, clock, breaker_vars, limiter_vars,
                   scheduler_vars>>

\* a subprocess exits: its returncode is set
ProcessExits ==
    /\ \E worker \in Processes :
         /\ Alive(worker)
         /\ exited' = exited \cup {worker}
    /\ UNCHANGED <<max_workers, available_workers, busy_workers,
                   total_processes_created, got, cleaning>>
    /\ UNCHANGED <<engine_vars, clock, breaker_vars, limiter_vars,
                   scheduler_vars>>

InitPoolAlone ==
    /\ InitQueue
    /\ max_concurrent = 1
    /\ running = FALSE
    /\ active_tasks = {}
    /\ clock = 0
    /\ InitBreaker({5}, {60})
    /\ InitLimiter({10}, {500})
    /\ InitPool(PoolSizes)
    /\ InitScheduler

NextPool ==
    \/ GetWorker
    \/ ReturnWorker
    \/ ProcessExits

SpecPool == InitPoolAlone /\ [][NextPool]_vars

\* the orders in which list(busy_workers) may enumerate a set
Orders(S) ==
    {order \in [1..Cardinality(S) -> S] :
        \A i, j \in 1..Cardinality(S) : order[i] = order[j] => i = j}

\* the loop of cleanup over the workers left, `dead` being the processes
\* whose returncode is set: it runs up to the first worker that is alive,
\* calls terminate() and awaits worker.wait() inside the locked block; when
\* no worker is left both collections are cleared and the lock is released
CleanupLoop(workers, dead) ==
    IF \E i \in DOMAIN workers : workers[i] \notin dead
    THEN LET first == CHOOSE i \in DOMAIN workers :
                          /\ workers[i] \notin dead
                          /\ \A j \in 1..(i - 1) : workers[j] \in dead
         IN /\ cleaning' = [waiting |-> TRUE, worker |-> workers[first],
                            rest |-> SubSeq(workers, first + 1, Len(workers))]
            /\ UNCHANGED <<available_workers, busy_workers>>
    ELSE /\ cleaning' = [waiting |-> FALSE, worker |-> NoWorker, rest |-> <<>>]
         /\ available_workers' = <<>>
         /\ busy_workers' = {}

\* ProcessPool.cleanup, from taking the lock to its first suspension
CleanupBegins ==
    /\ LockFree
    /\ \E order \in Orders(busy_workers) :
         CleanupLoop(available_workers \o order, exited)
    /\ UNCHANGED <<max_workers, total_processes_created, exited, got>>
    /\ UNCHANGED <<engine_vars, clock, breaker_vars, limiter_vars,
                   scheduler_vars>>

\* ProcessPool.cleanup resumes: the worker has exited within the five
\* seconds, or wait_for timed out and the worker is sent kill(); the loop
\* goes on with the workers left
CleanupResumes ==
    /\ cleaning.waiting
    /\ \E in_time \in BOOLEAN :
         /\ exited' = IF in_time THEN exited \cup {cleaning.worker} ELSE exited
         /\ CleanupLoop(cleaning.rest, exited')
    /\ UNCHANGED <<max_workers, total_processes_created, got>>
    /\ UNCHANGED <<engine_vars, clock, breaker_vars, limiter_vars,
                   scheduler_vars>>

NextCleanup ==
    \/ GetWorker
    \/ ReturnWorker
    \/ ProcessExits
    \/ CleanupBegins
    \/ CleanupResumes

SpecCleanup == InitPoolAlone /\ [][NextCleanup]_vars

-----------------------------------------------------------------------------
(* TaskScheduler *)

\* the task_id of schedule_task
ScheduledIds == {"cleanup", "report"}

\* the interval_seconds of schedule_task
Intervals == {1, 60}

\* TaskScheduler.schedule_task: the entry is due at once; an entry of the
\* same task_id is replaced
ScheduleTask ==
    /\ \E task_id \in ScheduledIds, interval_seconds \in Intervals :
         scheduled_tasks' =
             [n \in DOMAIN scheduled_tasks \cup {task_id} |->
                IF n = task_id
                THEN [interval |-> interval_seconds,
                      last_run |-> NoneTime,
                      next_run |-> clock]
                ELSE scheduled_tasks[n]]
    /\ UNCHANGED <<scheduler_running, last_pass>>
    /\ UNCHANGED <<engine_vars, clock, breaker_vars, limiter_vars, pool_vars>>

\* TaskScheduler.start (it returns at once when the scheduler is running)
SchedulerStart ==
    /\ ~scheduler_running
    /\ scheduler_running' = TRUE
    /\ UNCHANGED <<scheduled_tasks, last_pass>>
    /\ UNCHANGED <<engine_vars, clock, breaker_vars, limiter_vars, pool_vars>>

\* TaskScheduler.stop
SchedulerStop ==
    /\ scheduler_running
    /\ scheduler_running' = FALSE
    /\ UNCHANGED <<scheduled_tasks, last_pass>>
    /\ UNCHANGED <<engine_vars, clock, breaker_vars, limiter_vars, pool_vars>>

\* the entries a pass of the loop that reads the time now finds due
Due == {n \in DOMAIN scheduled_tasks : clock >= scheduled_tasks[n].next_run}

\* one pass of TaskScheduler._schedule_loop: the time is read once, every due
\* entry's factory is awaited and returns or raises; the loop then sleeps a
\* second, so two passes read different times
ScheduleLoop ==
    /\ scheduler_running
    /\ clock > last_pass.at
    /\ \E outcome \in [Due -> {"returned", "raised"}] :
         /\ scheduled_tasks' =
              [n \in DOMAIN scheduled_tasks |->
                 IF n \in Due /\ outcome[n] = "returned"
                 THEN [scheduled_tasks[n] EXCEPT
                          !.last_run = clock,
                          !.next_run = clock + scheduled_tasks[n].interval]
                 ELSE scheduled_tasks[n]]
         /\ last_pass' = [at |-> clock, outcome |-> outcome]
    /\ UNCHANGED scheduler_running
    /\ UNCHANGED <<engine_vars, clock, breaker_vars, limiter_vars, pool_vars>>

NextScheduler ==
    \/ ScheduleTask
    \/ SchedulerStart
    \/ SchedulerStop
    \/ ScheduleLoop
    \/ AdvanceClock

SpecScheduler == Init /\ [][NextScheduler]_vars

-----------------------------------------------------------------------------
(* Properties *)

\* this step is a get_next_task that returns t
Selected(t) == attempts'[t] = attempts[t] + 1

Terminal == {COMPLETED, FAILED, CANCELLED, TIMEOUT}

RunningStatus == {t \in Known : tasks[t].status = RUNNING}

\* t has a dependency with required=true that is not in the completed index
UnresolvedRequired(t) ==
    \E i \in 1..Len(tasks[t].dependencies) :
        /\ tasks[t].dependencies[i].required
        /\ tasks[t].dependencies[i].task_id \notin CompletedIds

\* a scan of get_next_task would consider t
Eligible(t) ==
    /\ \E i \in 1..Len(ScanOrder) : ScanOrder[i] = t
    /\ t \notin running_tasks
    /\ can_start(tasks[t], CompletedIds)

\* C1: a task with max_retries = R is returned by get_next_task at most R+1
\* times, whatever calls are made on the queue.
C1_AttemptsBounded ==
    \A t \in Known : attempts[t] <= tasks[t].max_retries + 1

\* C2: a task has status FAILED only after exactly max_retries + 1 of its
\* execution attempts have failed (raised, timed out, or returned success=false).
C2_FailedOnlyAfterAllRetries ==
    \A t \in Known :
        tasks[t].status = FAILED => failed_attempts[t] = tasks[t].max_retries + 1

\* C3: get_next_task returns only a task whose status is PENDING when it is
\* selected, never one that is COMPLETED, FAILED, CANCELLED or RUNNING.
C3_SelectsOnlyPending ==
    [][\A t \in Known : Selected(t) => tasks[t].status = PENDING]_vars

\* C4: get_next_task never returns a task that has a required dependency
\* absent from the completed index, and such a task keeps its status (it
\* stays PENDING) across the call, whatever its score.
C4_RequiredDependencyBlocks ==
    [][\A t \in Known :
          UnresolvedRequired(t) =>
              /\ ~Selected(t)
              /\ (\E u \in Known : Selected(u)) =>
                     tasks'[t].status = tasks[t].status]_vars

\* C4 happens: a PENDING task with an unresolved required dependency was
\* passed over although it scores higher than the task that was returned.
C4_Witness ==
    \E t \in Known, u \in Known :
        /\ UnresolvedRequired(t)
        /\ tasks[t].status = PENDING
        /\ attempts[t] = 0
        /\ tasks[u].status = RUNNING
        /\ attempts[u] = 1
        /\ calculate_task_score(tasks[t]) > calculate_task_score(tasks[u])

\* C5: once every task a PENDING task requires has a terminal status
\* (COMPLETED, FAILED or CANCELLED), the PENDING task is eligible in the next
\* scan of get_next_task.
C5_TerminalDependencyUnblocks ==
    \A t \in Known :
        ( /\ tasks[t].status = PENDING
          /\ \A i \in 1..Len(tasks[t].dependencies) :
                /\ tasks[t].dependencies[i].required
                /\ tasks[t].dependencies[i].task_id \in Known
                /\ tasks[tasks[t].dependencies[i].task_id].status \in Terminal )
        => Eligible(t)

\* a is HIGH, b is LOW, both PENDING, created at the same time, no dependencies
HighLowPair(a, b) ==
    /\ tasks[a].priority = HIGH
    /\ tasks[b].priority = LOW
    /\ tasks[a].status = PENDING
    /\ tasks[b].status = PENDING
    /\ tasks[a].created_at = tasks[b].created_at
    /\ tasks[a].dependencies = <<>>
    /\ tasks[b].dependencies = <<>>

\* what b's score has over a's apart from the priority term
Handicap(a, b) ==
    5 * ((tasks[b].max_retries - tasks[b].retry_count)
            - (tasks[a].max_retries - tasks[a].retry_count))
    + 20 * ((IF tasks[b].timeout_seconds # 0 THEN 1 ELSE 0)
            - (IF tasks[a].timeout_seconds # 0 THEN 1 ELSE 0))

\* C6 as stated: while a HIGH task and a LOW task of the same age without
\* dependencies are both PENDING, get_next_task does not return the LOW one,
\* whatever their max_retries, retry_count and timeout.
C6_HighBeforeLow_Original ==
    [][\A a \in Known, b \in Known : HighLowPair(a, b) => ~Selected(b)]_vars

\* C6 amended: ... get_next_task does not return the LOW one, provided the
\* retry budgets and timeouts give the LOW task less than the 200 points that
\* the priorities give the HIGH task.
C6_HighBeforeLow ==
    [][\A a \in Known, b \in Known :
          (HighLowPair(a, b) /\ Handicap(a, b) < 200) => ~Selected(b)]_vars

\* C6 happens: the HIGH task was returned while the LOW task, which has the
\* larger retry budget and a timeout, was still PENDING and never returned.
C6_Witness ==
    /\ Len(tasks) = 2
    /\ tasks[1].priority = HIGH
    /\ tasks[2].priority = LOW
    /\ attempts[1] = 1
    /\ attempts[2] = 0
    /\ tasks[1].status = RUNNING
    /\ tasks[2].status = PENDING
    /\ Handicap(1, 2) > 0
    /\ Handicap(1, 2) < 200

\* C7: at most max_concurrent tasks have status RUNNING and at most
\* max_concurrent executions are in the in-flight set.
C7_ConcurrencyBound ==
    /\ Cardinality(RunningStatus) <= max_concurrent
    /\ Cardinality(active_tasks) <= max_concurrent

\* C8: finished executions are pruned, so the loop keeps dispatching: while
\* the coordinator runs, fewer than max_concurrent executions are unfinished
\* and a PENDING task that was never selected is eligible, the in-flight set
\* has room for it.
C8_KeepsDispatching ==
    ( /\ running
      /\ Cardinality(InFlight) < max_concurrent
      /\ \E t \in Known :
            tasks[t].status = PENDING /\ attempts[t] = 0 /\ Eligible(t) )
    => Cardinality(active_tasks) < max_concurrent

\* C9: a task whose current execution attempt has not been reported through
\* complete_task, fail_task or cancel_task is not returned by get_next_task,
\* and no task is PENDING while it is in the running set.
C9_NoDoubleSelection ==
    [][/\ \A t \in running_tasks' : tasks'[t].status # PENDING
       /\ \A t \in Known :
             Selected(t) =>
                 ~\E e \in InFlight :
                     e.task = t /\ e.attempt = attempts[t] /\ ~e.cancelled]_vars

\* C10: in the end-to-end scenario A is the first task selected, B is selected
\* only after A is in the completed index, and no task is executed twice.
C10_EndToEnd ==
    /\ (attempts[2] > 0 \/ attempts[3] > 0) => attempts[1] > 0
    /\ attempts[2] > 0 => 1 \in CompletedIds
    /\ \A t \in Known : attempts[t] <= 1

\* C11: no runnable PENDING task starves: when every task get_next_task
\* returns is completed afterwards and the calls go on, each PENDING task
\* whose dependencies are satisfied is eventually returned, a LOW one next
\* to a HIGH one included.
C11_NoStarvation ==
    \A t \in TaskIds :
        (t \in Known /\ tasks[t].status = PENDING /\ Eligible(t))
            ~> (attempts[t] > 0)

\* this step is a call of CircuitBreaker.call arriving
Arrives == Len(calls') = Len(calls) + 1

\* the call that arrives in this step
Arrival == calls'[Len(calls')]

\* C12: after failure_threshold consecutive failed calls, a call that arrives
\* before the timeout has passed since the last failure is rejected, the
\* wrapped function is not invoked, and neither the failure counter nor
\* last_failure_time changes.
C12_OpenRejects ==
    [][(/\ Arrives
        /\ streak >= failure_threshold
        /\ clock - last_failure_time < timeout)
       => /\ Arrival.outcome = "rejected"
          /\ Running' = Running
          /\ failures' = failures
          /\ last_failure_time' = last_failure_time]_vars

\* C12 happens: two calls in a row failed with failure_threshold = 2, and a
\* later call, made before the timeout had passed, was rejected.
C12_Witness ==
    /\ failure_threshold = 2
    /\ Len(calls) = 3
    /\ calls[1].outcome = "raised"
    /\ calls[2].outcome = "raised"
    /\ calls[3].outcome = "rejected"
    /\ failures = 2
    /\ clock > last_failure_time
    /\ clock - last_failure_time < timeout

\* C13: when the circuit is open and the timeout has passed, exactly one call
\* is let in as the probe: a call that arrives while the probe is still in
\* flight and the state is half-open is rejected without invoking the
\* wrapped function.
C13_SingleProbe ==
    [][(/\ Arrives
        /\ state = HALF_OPEN
        /\ \E i \in Running : calls[i].before = OPEN)
       => /\ Arrival.outcome = "rejected"
          /\ Running' = Running]_vars

\* C14: a call that succeeds while the state is half-open sets the state to
\* closed and the failure counter to 0.
C14_ProbeSuccessCloses ==
    [][\A i \in Running :
          (calls'[i].outcome = "returned" /\ state = HALF_OPEN)
              => (state' = CLOSED /\ failures' = 0)]_vars

\* C14 happens: the circuit opened after two failures, the probe let in
\* after the timeout has returned, and the circuit is closed with no failures.
C14_Witness ==
    /\ Len(calls) = 3
    /\ calls[1].outcome = "raised"
    /\ calls[2].outcome = "raised"
    /\ calls[3] = Call(OPEN, HALF_OPEN, "returned")
    /\ state = CLOSED
    /\ failures = 0

\* the calls of acquire() that returned true
Granted == {i \in DOMAIN acquired : acquired[i].ok}

\* the calls that returned true at a time within [from, from + length]
GrantedWithin(from, length) ==
    {j \in Granted : acquired[j].time >= from /\ acquired[j].time <= from + length}

\* C15: for acquire() calls at non-decreasing times, at most
\* requests_per_minute calls returned true within any interval of 60 seconds
\* and at most requests_per_hour within any interval of 3600 seconds (an
\* interval that holds a call that returned true can be taken to start at one).
C15_WindowBound ==
    \A i \in Granted :
        /\ Cardinality(GrantedWithin(acquired[i].time, 60)) <= rpm_limit
        /\ Cardinality(GrantedWithin(acquired[i].time, 3600)) <= rph_limit

\* C15 happens: with one request a minute and two an hour, requests were let
\* in at 0 and 61, denied at 3600 and let in at 3601.
C15_Witness ==
    /\ rpm_limit = 1
    /\ rph_limit = 2
    /\ acquired = <<[time |-> 0, ok |-> TRUE], [time |-> 61, ok |-> TRUE],
                    [time |-> 3600, ok |-> FALSE], [time |-> 3601, ok |-> TRUE]>>

\* the timestamps of a window that are not older than `length` seconds
Kept(requests, length) ==
    LET Young(ts) == clock - ts <= length
    IN SelectSeq(requests, Young)

\* C16: acquire() returns false and records no timestamp in either window
\* when, after the entries older than 60 s and 3600 s are pruned, either
\* window holds its capacity; otherwise it returns true and appends the same
\* timestamp, the time of the call, to both windows.
C16_AcquireDecides ==
    [][Len(acquired') = Len(acquired) + 1 =>
          LET minute == Kept(minute_requests, 60)
              hour == Kept(hour_requests, 3600)
              result == acquired'[Len(acquired')]
          IN IF Len(minute) >= rpm_limit \/ Len(hour) >= rph_limit
             THEN /\ ~result.ok
                  /\ minute_requests' = minute
                  /\ hour_requests' = hour
             ELSE /\ result.ok
                  /\ minute_requests' = Append(minute, clock)
                  /\ hour_requests' = Append(hour, clock)]_vars

\* C16 happens: with requests_per_minute = 2, three calls within one second
\* gave true, true, false and a call 61 seconds after the first gave true.
C16_Witness ==
    /\ rpm_limit = 2
    /\ Len(acquired) = 4
    /\ acquired[1] = [time |-> 0, ok |-> TRUE]
    /\ acquired[2].ok
    /\ ~acquired[3].ok
    /\ acquired[3].time <= 1
    /\ acquired[4] = [time |-> 61, ok |-> TRUE]
    /\ minute_requests = <<acquired[2].time, 61>>
    /\ hour_requests = <<0, acquired[2].time, 61>>

\* C17: the pool enforces its cap: after any sequence of get_worker and
\* return_worker calls at most max_workers workers are busy.
C17_PoolCap == Cardinality(busy_workers) <= max_workers

\* get_worker finds no live worker in available_workers
NoneIdle == FirstAlive = 0

\* C18: get_worker tells "create a new worker" (no live idle worker, busy
\* count below max_workers; the code signals it with None) apart from "no
\* worker available" (pool at capacity), and counts a process as created
\* only in the former case.
C18_DistinctOutcomes ==
    [][got'.n = got.n + 1 =>
          /\ (NoneIdle /\ Cardinality(busy_workers) < max_workers) =>
                 /\ got'.worker = NoWorker
                 /\ total_processes_created' = total_processes_created + 1
          /\ (NoneIdle /\ Cardinality(busy_workers) >= max_workers) =>
                 /\ got'.worker # NoWorker
                 /\ total_processes_created' = total_processes_created
          /\ ~NoneIdle => total_processes_created' = total_processes_created]_vars

\* this step reports a failed execution attempt of t
AttemptFails(t) == failed_attempts'[t] = failed_attempts[t] + 1

\* C19: a task whose agent_id has no registered handler is failed at once
\* and without retry: its execution attempt leaves it FAILED and requeues
\* nothing, whatever its max_retries.
C19_NoHandlerNoRetry ==
    [][\A t \in Known :
          (tasks[t].agent_id \notin task_handlers /\ AttemptFails(t))
              => /\ tasks'[t].status = FAILED
                 /\ pending_tasks' = pending_tasks]_vars

\* C20: a task whose final attempt (no retry left) exceeds its timeout ends
\* with status TIMEOUT, not FAILED.  Every failed attempt of the timeout
\* scenario is a timeout.
C20_TimeoutStatus ==
    [][\A t \in Known :
          (/\ tasks[t].timeout_seconds # 0
           /\ tasks[t].retry_count >= tasks[t].max_retries
           /\ AttemptFails(t))
              => tasks'[t].status = TIMEOUT]_vars

\* C21: every execution attempt that returns (the handler returned, raised,
\* timed out or returned a malformed result) has applied exactly one of
\* complete_task and fail_task to the queue, never both and never neither.
\* (A step of stop(), which cancels the executions, is not such a return.)
C21_OneReportPerAttempt ==
    [][running' = running =>
          \A e \in active_tasks' :
              (e.done /\ e \notin active_tasks) => Len(e.reports) = 1]_vars

\* C22: cancel_task(t) on a known task, whatever its status (PENDING, RUNNING
\* or terminal already), leaves t with status CANCELLED, completed_at set,
\* and t absent from the running set.
C22_CancelForces ==
    [][\A t \in Known :
          DoCancel(t) =>
              /\ tasks'[t].status = CANCELLED
              /\ tasks'[t].completed_at # NoneTime
              /\ t \notin running_tasks']_vars

\* C22 happens: one task was cancelled after it had been completed, the
\* other while it was RUNNING.
C22_Witness ==
    /\ Len(tasks) = 2
    /\ tasks[1].status = CANCELLED
    /\ tasks[2].status = CANCELLED
    /\ attempts[1] = 1
    /\ attempts[2] = 1
    /\ 1 \in CompletedIds
    /\ 2 \notin CompletedIds
    /\ running_tasks = {}

\* C23: in every reachable state the pending count reported for each priority
\* is the number of tasks of that priority whose status is PENDING, and the
\* total pending count is the count reported for the status 'pending'.
C23_PendingCounts ==
    /\ \A p \in TaskPriority :
          get_queue_stats.tasks_by_priority[p] =
              Cardinality({t \in Known : /\ tasks[t].priority = p
                                         /\ tasks[t].status = PENDING})
    /\ get_queue_stats.pending_tasks = get_queue_stats.tasks_by_status[PENDING]

\* t has a dependency with required=false that is not in the completed index
UnresolvedOptional(t) ==
    \E i \in 1..Len(tasks[t].dependencies) :
        /\ ~tasks[t].dependencies[i].required
        /\ tasks[t].dependencies[i].task_id \notin CompletedIds

\* C25: a dependency with required=false never blocks selection: a PENDING
\* task whose unresolved dependencies all have required=false is eligible
\* for get_next_task.
C25_OptionalNeverBlocks ==
    \A t \in Known :
        ( /\ tasks[t].status = PENDING
          /\ UnresolvedOptional(t)
          /\ ~UnresolvedRequired(t) )
        => Eligible(t)

\* this step is the end of call i: func returned, or func raised
Ends(i, outcome) ==
    /\ calls[i].outcome = "running"
    /\ calls'[i].outcome = outcome

\* C27: a call that fails while the state is HALF_OPEN sets the state back to
\* OPEN and stamps last_failure_time with the time of that failure, for every
\* failure_threshold and every history of earlier calls.
C27_ProbeFailureReopens ==
    [][\A i \in DOMAIN calls :
          (state = HALF_OPEN /\ Ends(i, "raised")) =>
              /\ state' = OPEN
              /\ last_failure_time' = clock]_vars

\* C27 happens: with threshold 3, three failures opened the circuit, the
\* fourth call was let in after the timeout and failed while half-open.
C27_Witness ==
    /\ failure_threshold = 3
    /\ Len(calls) = 4
    /\ \A i \in 1..4 : calls[i].outcome = "raised"
    /\ calls[4].before = OPEN
    /\ calls[4].entered = HALF_OPEN
    /\ state = OPEN
    /\ last_failure_time = clock

\* C28: the breaker counts consecutive failures: a call that succeeds while
\* the state is CLOSED resets the failure counter, so the circuit opens only
\* when failure_threshold calls in a row have failed, never because of
\* failures separated by successes.
C28_ConsecutiveFailures ==
    [][/\ \A i \in DOMAIN calls :
             (state = CLOSED /\ Ends(i, "returned")) => failures' = 0
       /\ (state = CLOSED /\ state' = OPEN) => streak' >= failure_threshold]_vars

\* C29: when the Codex subprocess fails (spawn error, time-out or nonzero
\* exit) for failure_threshold tasks in a row, the orchestrator's breaker has
\* recorded those failures and is open, so that the following task is
\* rejected without a subprocess being spawned.
C29_CodexFailuresOpen ==
    ( /\ Running = {}
      /\ Len(calls) >= failure_threshold
      /\ \A i \in (Len(calls) - failure_threshold + 1)..Len(calls) :
            calls[i].outcome \in CodexFailures )
    => /\ failures >= failure_threshold
       /\ state = OPEN

\* C26: get_next_task returns an eligible task with the maximum fairness
\* score over all priority buckets, and among the eligible tasks that share
\* the maximum score it returns the one with the earliest created_at.
C26_MaxScoreOldestFirst ==
    [][\A t \in Known :
          Selected(t) =>
              /\ Eligible(t)
              /\ \A u \in Known :
                    Eligible(u) =>
                        /\ calculate_task_score(tasks[u])
                               <= calculate_task_score(tasks[t])
                        /\ calculate_task_score(tasks[u])
                               = calculate_task_score(tasks[t])
                             => tasks[t].created_at <= tasks[u].created_at]_vars

\* C30: started_at is written only on the first transition to RUNNING: a
\* task that was retried (requeued by fail_task after it had been started)
\* and is selected again keeps the started_at of its first selection.
C30_StartedAtOnce ==
    [][\A t \in Known :
          ( /\ Selected(t)
            /\ tasks[t].status = PENDING
            /\ tasks[t].retry_count > 0
            /\ tasks[t].started_at # NoneTime )
          => tasks'[t].started_at = tasks[t].started_at]_vars

\* this step is a pass of the scheduler's loop
Pass == last_pass'.at = clock /\ last_pass.at # clock

\* C24: when a scheduled callback raises, the error is not propagated (the
\* scheduler keeps running), the other due entries are still invoked in that
\* pass, and the failing entry's next_run is set to now + interval, so that it
\* is not invoked again before its interval has elapsed.
C24_FailedCallbackWaits ==
    [][\A n \in DOMAIN scheduled_tasks :
          (Pass /\ n \in Due /\ last_pass'.outcome[n] = "raised") =>
              /\ scheduler_running'
              /\ DOMAIN last_pass'.outcome = Due
              /\ scheduled_tasks'[n].next_run
                     = clock + scheduled_tasks[n].interval]_vars

\* C31: in every reachable state a task's completed_at is set only if its
\* status is terminal (COMPLETED, FAILED, CANCELLED or TIMEOUT): no PENDING
\* or RUNNING task has completed_at set.
C31_CompletedAtOnlyTerminal ==
    \A t \in Known :
        tasks[t].completed_at # NoneTime => tasks[t].status \in Terminal

\* C32: no component operation awaits anything but its own lock while it
\* holds that lock; in particular ProcessPool.cleanup does not wait for a
\* subprocess to exit while it holds the pool's lock, so that a concurrent
\* get_worker or return_worker is never blocked behind the grace period of a
\* worker's termination.
C32_NoAwaitUnderLock == LockFree

\* this step is the report (complete_task, fail_task or both) of an
\* execution of t
Reports(t) ==
    \E e \in active_tasks' \ active_tasks :
        e.task = t /\ e.done /\ e.reports # <<>>

\* C33: once a task's status is terminal (COMPLETED, permanently FAILED or
\* CANCELLED) no later operation of the queue changes it: in particular the
\* complete_task or fail_task reported by an execution that is still running
\* after cancel_task does not overwrite CANCELLED and does not requeue the
\* task.
C33_TerminalIsFinal ==
    [][\A t \in Known :
          (tasks[t].status \in {COMPLETED, FAILED, CANCELLED} /\ Reports(t)) =>
              /\ tasks'[t].status = tasks[t].status
              /\ pending_tasks' = pending_tasks]_vars

\* C34: after TaskCoordinator.stop() has returned no task is left with
\* status RUNNING or in the queue's running set: every execution that stop
\* cancels is reported back to the queue (requeued or finalised).
C34_StopLeavesNothingRunning ==
    [][(running /\ ~running') =>
          /\ running_tasks' = {}
          /\ \A t \in Known : tasks'[t].status # RUNNING]_vars

\* C35: whenever at least one PENDING task has all its dependencies
\* satisfied, get_next_task returns a task, never None, whatever the
\* priority, max_retries, retry_count and number of dependencies of the
\* pending tasks.
C35_ReadyTaskIsReturned ==
    (\E t \in Known :
        /\ tasks[t].status = PENDING
        /\ t \notin running_tasks
        /\ can_start(tasks[t], CompletedIds))
    => \A drift \in BOOLEAN : BestTask(drift) # 0

\* C36: a handler that returns normally completes its task: a task
\* dispatched to a handler registered by _register_default_handlers whose
\* handler returns a success value without raising ends with status
\* COMPLETED after that attempt and is not retried.
C36_ReturnCompletes ==
    [][\A t \in Known :
          Reports(t) =>
              /\ tasks'[t].status = COMPLETED
              /\ tasks'[t].retry_count = tasks[t].retry_count
              /\ pending_tasks' = pending_tasks]_vars

\* C37: the breaker leaves HALF_OPEN for CLOSED only on the success of the
\* probe let in in that half-open window: a call that was let in while the
\* breaker was CLOSED and returns while the state is HALF_OPEN neither closes
\* the circuit nor resets the failure counter.
C37_OnlyProbeCloses ==
    [][\A i \in DOMAIN calls :
          (calls[i].before = CLOSED /\ Ends(i, "returned") /\ state = HALF_OPEN)
              => /\ state' = HALF_OPEN
                 /\ failures' = failures]_vars

\* the workers in the idle collection after this step
Idle == {available_workers'[i] : i \in DOMAIN available_workers'}

\* C38: worker exclusivity: under any sequence of get_worker and
\* return_worker calls (return_worker called twice for one worker, or for a
\* worker the pool never handed out, included) a worker is never idle and
\* busy at once, never twice in the idle collection, and never handed by
\* get_worker to a second caller before it was returned.
C38_WorkerExclusive ==
    [][/\ Idle \cap busy_workers' = {}
       /\ Cardinality(Idle) = Len(available_workers')
       /\ (got'.n = got.n + 1 /\ got'.worker # NoWorker)
             => got'.worker \notin busy_workers]_vars

\* C39: the completed-task index holds exactly the tasks with a terminal
\* status: in every reachable state every task whose status is COMPLETED,
\* FAILED or CANCELLED has an entry in completed_tasks, and no PENDING or
\* RUNNING task has one.
C39_IndexIsTerminal ==
    \A t \in Known :
        /\ tasks[t].status \in {COMPLETED, FAILED, CANCELLED} => t \in CompletedIds
        /\ tasks[t].status \in {PENDING, RUNNING} => t \notin CompletedIds

\* C40: for tasks entered through submit_task the queue's running set is
\* exactly the set of tasks whose status is RUNNING, in every reachable
\* state, under any interleaving of get_next_task, complete_task, fail_task
\* and cancel_task.
C40_RunningSetIsRunningStatus == running_tasks = RunningStatus

\* C40 happens: of three submitted tasks that were all selected, the first
\* was failed and requeued, the second cancelled, the third is running.
C40_Witness ==
    /\ Len(tasks) = 3
    /\ \A t \in 1..3 : attempts[t] = 1
    /\ tasks[1].status = PENDING
    /\ tasks[1].retry_count = 1
    /\ tasks[2].status = CANCELLED
    /\ tasks[3].status = RUNNING
    /\ running_tasks = {3}

====
